---- MODULE Spec2Model ----
(***************************************************************************)
(* Model of the price-prediction service (src/app.py) and of the artifacts *)
(* its trainer writes (src/train_model.py).                                *)
(*                                                                         *)
(* Numbers are integers counting tenths (100 stands for 10.0), so that the *)
(* 0.9 factor of the business rule and non-integer domain codes are exact. *)
(* Strings are sequences of one-character strings over Chars.              *)
(***************************************************************************)
EXTENDS Integers, Sequences, FiniteSets, TLC

\* Longest string a request carries as its domain.
MaxStrLen == 2
\* Longest 'predictions' list of a /predict_batch request.
MaxBatch == 3

----------------------------------------------------------------------------
\* Python strings

Chars == {"A", "a", "b"}

\* Unicode code point of a character (the order Python compares strings by).
Ord(c) == CASE c = "A" -> 65 [] c = "a" -> 97 [] OTHER -> 98

LowerChar(c) == IF c = "A" THEN "a" ELSE c

\* str.lower()
Lower(s) == [i \in 1..Len(s) |-> LowerChar(s[i])]

\* Python's `sub in s` on strings
StrIn(sub, s) ==
  \E i \in 0..(Len(s) - Len(sub)) : SubSeq(s, i + 1, i + Len(sub)) = sub

\* Python's `a < b` on strings
StrLess(a, b) ==
  \E k \in 1..(Len(b)) :
     /\ \A j \in 1..(k - 1) : j <= Len(a) /\ a[j] = b[j]
     /\ \/ k = Len(a) + 1
        \/ k <= Len(a) /\ Ord(a[k]) < Ord(b[k])

Strings(n) == UNION {[1..k -> Chars] : k \in 0..n}

----------------------------------------------------------------------------
\* JSON values of a request body, as request.get_json() hands them over

JAbsent == [t |-> "absent", v |-> 0, s |-> <<>>]
JNull == [t |-> "null", v |-> 0, s |-> <<>>]
JNaN == [t |-> "nan", v |-> 0, s |-> <<>>]
JList == [t |-> "list", v |-> 0, s |-> <<>>]
JNum(n) == [t |-> "num", v |-> n, s |-> <<>>]
JStr(str) == [t |-> "str", v |-> 0, s |-> str]

\* dict.get(key): None for a key that is absent and for a key holding null
IsNone(j) == j.t \in {"absent", "null"}

\* Python values whose JSON serialisation differs: int serialises,
\* numpy.int64 makes jsonify raise TypeError.
PyInt(n) == [py |-> "int", n |-> n]
NpInt64(n) == [py |-> "numpy.int64", n |-> n]

None == [py |-> "NoneType"]

----------------------------------------------------------------------------
\* The trainer and its artifacts

\* Domain names a dataset's 'Domaine' column may hold.
NamePool == {<<"A", "b">>, <<"a", "b">>, <<"b">>}

\* Results of LinearRegression.fit: intercept_ and coef_ in feature order.
Models ==
  { [py |-> "LinearRegression", intercept_ |-> 0, coef_ |-> <<20, 1, 0, 0>>],
    [py |-> "LinearRegression", intercept_ |-> -100, coef_ |-> <<50, 1, 0, 0>>] }

RECURSIVE SortedClasses(_)
\* np.unique as LabelEncoder.fit uses it: the distinct names in sorted order
SortedClasses(S) ==
  IF S = {} THEN <<>>
  ELSE LET m == CHOOSE x \in S : \A y \in S \ {x} : StrLess(x, y)
       IN <<m>> \o SortedClasses(S \ {m})

\* LabelEncoder.transform([d])[0]: the position of d in classes_ (0-based),
\* ValueError for a label the encoder has not seen.
Transform(le, d) ==
  IF \E k \in 1..Len(le.classes_) : le.classes_[k] = d
  THEN [exc |-> "none",
        val |-> NpInt64((CHOOSE k \in 1..Len(le.classes_) : le.classes_[k] = d) - 1)]
  ELSE [exc |-> "ValueError", val |-> NpInt64(0)]

FeatureColumns ==
  <<"Domaine_encoded", "Prix_concurrent", "Cout_production", "Marge_voulue">>

\* The four files train_cameroon_pricing_model writes, for a dataset whose
\* 'Domaine' column holds `domains` and whose fit gives `fitted`.
TrainedArtifacts(domains, fitted) ==
  LET le == [py |-> "LabelEncoder", classes_ |-> SortedClasses(domains)]
  IN [pricing_model |-> fitted,
      label_encoder |-> le,
      feature_names |-> [py |-> "list", items |-> FeatureColumns],
      domain_mapping |->
        [py |-> "dict", items |-> [d \in domains |-> Transform(le, d).val]]]

FileNames == {"pricing_model", "label_encoder", "feature_names", "domain_mapping"}

\* Files of the model directory that may be absent when the service starts
\* although the trainer ran.
RemovableFiles == {"label_encoder", "domain_mapping"}

----------------------------------------------------------------------------
VARIABLES
  disk,            \* the model directory: file name -> unpickled content
  model,           \* app.py globals
  label_encoder,
  feature_names,
  domain_mapping,
  model_info,
  model_loaded,
  pc,              \* "offline" | "idle" | "responded"
  request,         \* the request being (or last) handled
  response         \* the response of the handler, until it is sent

globals == <<model, label_encoder, feature_names, domain_mapping, model_info, model_loaded>>
vars == <<disk, globals, pc, request, response>>

NoRequest == [endpoint |-> "none"]
NoResponse == [status |-> 0, body |-> [x \in {} |-> 0]]

Init ==
  /\ disk = [f \in {} |-> None]
  /\ model = None
  /\ label_encoder = None
  /\ feature_names = None
  /\ domain_mapping = None
  /\ model_info = [py |-> "dict", items |-> [x \in {} |-> 0]]
  /\ model_loaded = FALSE
  /\ pc = "offline"
  /\ request = NoRequest
  /\ response = NoResponse

\* train_cameroon_pricing_model: fit and write the four artifacts
Train ==
  /\ pc = "offline"
  /\ DOMAIN disk = {}
  /\ \E domains \in SUBSET NamePool \ {{}}, fitted \in Models :
       disk' = TrainedArtifacts(domains, fitted)
  /\ UNCHANGED <<globals, pc, request, response>>

\* One artifact is missing from the model directory at service start.
RemoveFile ==
  /\ pc = "offline"
  /\ DOMAIN disk = FileNames
  /\ \E f \in RemovableFiles : disk' = [g \in DOMAIN disk \ {f} |-> disk[g]]
  /\ UNCHANGED <<globals, pc, request, response>>

----------------------------------------------------------------------------
\* Service startup

\* The globals after load_model_components ran against the model directory
\* `d`, and its return value `ret`. The files are opened in the order model,
\* encoder, feature names; a missing one raises inside the try, which leaves
\* the globals assigned so far and returns False.
load_model_components(d) ==
  LET unset == [model |-> None, label_encoder |-> None, feature_names |-> None,
                domain_mapping |-> None,
                model_info |-> [py |-> "dict", items |-> [x \in {} |-> 0]],
                ret |-> FALSE]
  IN
  IF "pricing_model" \notin DOMAIN d THEN unset
  ELSE IF "label_encoder" \notin DOMAIN d
    THEN [unset EXCEPT !.model = d.pricing_model]
  ELSE IF "feature_names" \notin DOMAIN d
    THEN [unset EXCEPT !.model = d.pricing_model, !.label_encoder = d.label_encoder]
  ELSE
    LET le == d.label_encoder
        names == {le.classes_[k] : k \in 1..Len(le.classes_)}
        mapping ==
          IF "domain_mapping" \in DOMAIN d THEN d.domain_mapping
          ELSE [py |-> "dict",
                items |-> [n \in names |-> PyInt(Transform(le, n).val.n)]]
        fn == d.feature_names.items
    IN [model |-> d.pricing_model,
        label_encoder |-> le,
        feature_names |-> d.feature_names,
        domain_mapping |-> mapping,
        model_info |->
          [py |-> "dict",
           items |-> [type |-> d.pricing_model.py,
                      features |-> fn,
                      domains |-> le.classes_,
                      n_domains |-> Len(le.classes_),
                      coefficients |->
                        [name \in {fn[k] : k \in 1..Len(fn)} |->
                           d.pricing_model.coef_[CHOOSE k \in 1..Len(fn) : fn[k] = name]],
                      intercept |-> d.pricing_model.intercept_]],
        ret |-> TRUE]

\* Module import: model_loaded = load_model_components(), then the server runs.
StartService ==
  /\ pc = "offline"
  /\ LET g == load_model_components(disk)
     IN /\ model' = g.model
        /\ label_encoder' = g.label_encoder
        /\ feature_names' = g.feature_names
        /\ domain_mapping' = g.domain_mapping
        /\ model_info' = g.model_info
        /\ model_loaded' = g.ret
  /\ pc' = "idle"
  /\ UNCHANGED <<disk, request, response>>

----------------------------------------------------------------------------
\* Responses

Resp(status, body) == [status |-> status, body |-> body]

MsgNotLoaded == "Modele non charge"

\* jsonify of a dict of numbers: TypeError unless every value is a Python int
CanJsonify(mapping) ==
  \A k \in DOMAIN mapping.items : mapping.items[k].py = "int"

\* round(num / den, .) to the nearest integer, ties to even (den > 0)
RoundDiv(num, den) ==
  LET q == num \div den
      r == num - q * den
  IN IF 2 * r < den THEN q
     ELSE IF 2 * r > den THEN q + 1
     ELSE IF q % 2 = 0 THEN q ELSE q + 1

----------------------------------------------------------------------------
\* GET /domains and GET /model_info

\* No model name is a key of the descriptions table: the fallback is returned.
get_domain_description(domain) == "Secteur economique specialise"

get_domains ==
  IF ~model_loaded THEN Resp(500, [error |-> MsgNotLoaded])
  ELSE
    LET cl == label_encoder.classes_
        names == {cl[k] : k \in 1..Len(cl)}
    IN Resp(200,
         [domaines_disponibles |->
            [d \in names |->
               [code |-> PyInt(Transform(label_encoder, d).val.n),
                description |-> get_domain_description(d)]],
          total |-> Len(cl)])

model_info_endpoint ==
  IF ~model_loaded THEN Resp(500, [error |-> MsgNotLoaded])
  ELSE
    LET cl == label_encoder.classes_
        names == {cl[k] : k \in 1..Len(cl)}
    IN Resp(200,
         [modele |-> [type |-> model_info.items.type,
                      caracteristiques |-> feature_names.items,
                      domaines_supportes |-> cl,
                      nombre_domaines |-> Len(cl)],
          encodage_domaines |->
            [d \in names |-> PyInt(Transform(label_encoder, d).val.n)],
          coefficients |-> model_info.items.coefficients,
          ordonnee_origine |-> model_info.items.intercept])

----------------------------------------------------------------------------
\* Coercions and validation

\* int(x) of a JSON value that is not a string: truncation toward zero for a
\* number, ValueError for NaN, TypeError for a list.
IntOf(j) ==
  CASE j.t = "num" ->
         [exc |-> "none",
          val |-> IF j.v >= 0 THEN j.v \div 10 ELSE -((-j.v) \div 10)]
    [] j.t = "nan" -> [exc |-> "ValueError", val |-> 0]
    [] OTHER -> [exc |-> "TypeError", val |-> 0]

\* float(x) of a JSON value: no string over Chars spells a number.
FloatOf(j) ==
  CASE j.t = "num" -> [exc |-> "none", val |-> [nan |-> FALSE, v |-> j.v]]
    [] j.t = "nan" -> [exc |-> "none", val |-> [nan |-> TRUE, v |-> 0]]
    [] j.t = "str" -> [exc |-> "ValueError", val |-> [nan |-> FALSE, v |-> 0]]
    [] OTHER -> [exc |-> "TypeError", val |-> [nan |-> FALSE, v |-> 0]]

ErrPrix == "prix_concurrent doit etre positif"
ErrCout == "cout_production doit etre positif"
ErrMarge == "marge_voulue doit etre positive"
ErrTropEleve == "cout_production semble trop eleve par rapport au prix_concurrent"

\* Variant: the business rule is only looked at when every sign is valid.
validate_numeric_ranges_elif(prix_concurrent, cout_production, marge_voulue) ==
  LET signs ==
        (IF ~prix_concurrent.nan /\ prix_concurrent.v < 0 THEN <<ErrPrix>> ELSE <<>>)
        \o (IF ~cout_production.nan /\ cout_production.v < 0 THEN <<ErrCout>> ELSE <<>>)
        \o (IF ~marge_voulue.nan /\ marge_voulue.v < 0 THEN <<ErrMarge>> ELSE <<>>)
  IN IF signs # <<>> THEN signs
     ELSE IF /\ ~cout_production.nan
             /\ ~prix_concurrent.nan
             /\ 10 * cout_production.v > 9 * prix_concurrent.v
     THEN <<ErrTropEleve>> ELSE <<>>

\* Every comparison with NaN is false.
validate_numeric_ranges(prix_concurrent, cout_production, marge_voulue) ==
  (IF ~prix_concurrent.nan /\ prix_concurrent.v < 0 THEN <<ErrPrix>> ELSE <<>>)
  \o (IF ~cout_production.nan /\ cout_production.v < 0 THEN <<ErrCout>> ELSE <<>>)
  \o (IF ~marge_voulue.nan /\ marge_voulue.v < 0 THEN <<ErrMarge>> ELSE <<>>)
  \o (IF /\ ~cout_production.nan
         /\ ~prix_concurrent.nan
         /\ 10 * cout_production.v > 9 * prix_concurrent.v
      THEN <<ErrTropEleve>> ELSE <<>>)

RequiredFields == <<"domaine", "prix_concurrent", "cout_production", "marge_voulue">>

\* Variant: only the first missing field is reported.
MissingFieldsFirstOnly(item) ==
  LET all == SelectSeq(RequiredFields, LAMBDA f : IsNone(item[f]))
  IN IF all = <<>> THEN <<>> ELSE <<all[1]>>

\* The missing_fields list: the required fields whose data.get() is None
MissingFields(item) == SelectSeq(RequiredFields, LAMBDA f : IsNone(item[f]))

\* `not data` of a dict: true for the empty dict
IsEmptyObject(data) == \A k \in 1..Len(RequiredFields) : data[RequiredFields[k]].t = "absent"

\* Variant: the code is taken as a position counted from the end.
ClassAtFromEnd(le, code) ==
  LET n == Len(le.classes_)
  IN IF 0 <= code /\ code < n THEN [exc |-> "none", val |-> le.classes_[n - code]]
     ELSE [exc |-> "IndexError", val |-> <<>>]

\* classes_[code]: Python indexing, a negative index counts from the end
ClassAt(le, code) ==
  LET n == Len(le.classes_)
  IN IF 0 <= code /\ code < n THEN [exc |-> "none", val |-> le.classes_[code + 1]]
     ELSE IF -n <= code /\ code < 0 THEN [exc |-> "none", val |-> le.classes_[n + code + 1]]
     ELSE [exc |-> "IndexError", val |-> <<>>]

\* `domaine in label_encoder.classes_`
InClasses(le, name) == \E k \in 1..Len(le.classes_) : le.classes_[k] = name

\* Variant: only names that contain the input match.
MatchesBothOneWay(le, name) ==
  SelectSeq(le.classes_, LAMBDA d : StrIn(Lower(name), Lower(d)))

\* The domaine_matches list of /predict: substring match in both directions
MatchesBoth(le, name) ==
  SelectSeq(le.classes_,
            LAMBDA d : StrIn(Lower(name), Lower(d)) \/ StrIn(Lower(d), Lower(name)))

\* The domaine_matches list of /predict_batch: the input inside a class name
MatchesForward(le, name) ==
  SelectSeq(le.classes_, LAMBDA d : StrIn(Lower(name), Lower(d)))

\* model.predict on the one-row frame: ValueError for a NaN input, else the
\* linear combination in feature order.
ModelPredict(m, code, prix, cout, marge) ==
  IF prix.nan \/ cout.nan \/ marge.nan
  THEN [exc |-> "ValueError", val |-> 0]
  ELSE [exc |-> "none",
        val |-> m.intercept_ + m.coef_[1] * code + m.coef_[2] * prix.v
                + m.coef_[3] * cout.v + m.coef_[4] * marge.v]

----------------------------------------------------------------------------
\* POST /predict

\* Outcomes of a block of the handler: it falls through with values ("ok"),
\* returns a response ("return"), or lets an exception escape ("raise").
Ok(nom, encode) ==
  [out |-> "ok", domaine_nom |-> nom, domaine_encode |-> encode,
   resp |-> Resp(0, <<>>), exc |-> "none"]
Return(resp) ==
  [out |-> "return", domaine_nom |-> <<>>, domaine_encode |-> PyInt(0),
   resp |-> resp, exc |-> "none"]
Raise(exc) ==
  [out |-> "raise", domaine_nom |-> <<>>, domaine_encode |-> PyInt(0),
   resp |-> Resp(0, <<>>), exc |-> exc]

ExempleComplet ==
  [domaine |-> "Electronique", prix_concurrent |-> 7500,
   cout_production |-> 5000, marge_voulue |-> 6]

\* The except (ValueError, IndexError) clause of the domain block
PredictEncodingError(exc) ==
  Return(Resp(400, [error |-> "Erreur d'encodage du domaine", details |-> exc,
                    domaines_disponibles |-> label_encoder.classes_]))

\* The domain block of predict (its inner try and except)
PredictResolveDomain(domaine) ==
  IF domaine.t = "str"
  THEN
    LET exact == InClasses(label_encoder, domaine.s)
        domaine_matches == MatchesBoth(label_encoder, domaine.s)
    IN IF ~exact /\ domaine_matches = <<>>
       THEN Return(Resp(400, [error |-> "Domaine non reconnu",
                              domaine |-> domaine.s,
                              domaines_disponibles |-> label_encoder.classes_]))
       ELSE
         LET name == IF exact THEN domaine.s ELSE domaine_matches[1]
             enc == Transform(label_encoder, name)
         IN IF enc.exc = "ValueError" THEN PredictEncodingError(enc.exc)
            ELSE Ok(name, enc.val)
  ELSE
    LET c == IntOf(domaine)
    IN IF c.exc = "ValueError" THEN PredictEncodingError(c.exc)
       ELSE IF c.exc # "none" THEN Raise(c.exc)
       ELSE IF c.val < 0 \/ c.val >= Len(label_encoder.classes_)
         THEN IF CanJsonify(domain_mapping)
              THEN Return(Resp(400, [error |-> "Code domaine invalide",
                                     domaine |-> domaine,
                                     codes_valides |-> Len(label_encoder.classes_) - 1,
                                     domaines_disponibles |-> domain_mapping.items]))
              ELSE Raise("TypeError")
       ELSE
         LET nom == ClassAt(label_encoder, c.val)
         IN IF nom.exc = "IndexError" THEN PredictEncodingError(nom.exc)
            ELSE Ok(nom.val, PyInt(c.val))

\* Variant: a value that float() rejects counts as 0 and no error is raised.
CoerceNumericsLenient(item) ==
  [exc |-> "none", offending |-> item.marge_voulue,
   prix_concurrent |-> FloatOf(item.prix_concurrent).val,
   cout_production |-> FloatOf(item.cout_production).val,
   marge_voulue |-> FloatOf(item.marge_voulue).val]

\* The three float() calls, in order; the first exception leaves the block.
CoerceNumerics(item) ==
  LET p == FloatOf(item.prix_concurrent)
      c == FloatOf(item.cout_production)
      m == FloatOf(item.marge_voulue)
  IN [exc |-> IF p.exc # "none" THEN p.exc
              ELSE IF c.exc # "none" THEN c.exc
              ELSE m.exc,
      offending |-> IF p.exc # "none" THEN item.prix_concurrent
                    ELSE IF c.exc # "none" THEN item.cout_production
                    ELSE item.marge_voulue,
      prix_concurrent |-> p.val, cout_production |-> c.val, marge_voulue |-> m.val]

\* marge_calculee rounded to 4 decimals (unit 0.0001)
MargeRealisee(predicted_price, cout) ==
  IF cout.v > 0 THEN RoundDiv((predicted_price - cout.v) * 10000, cout.v) ELSE 0

\* ratio_concurrent: None for a competitor price that is not positive
RatioConcurrent(predicted_price, prix) ==
  IF prix.v > 0 THEN [py |-> "float", num |-> predicted_price, den |-> prix.v]
  ELSE [py |-> "NoneType", num |-> 0, den |-> 1]

\* Python truth value of ratio_concurrent: None and 0.0 are false
Truthy(ratio) == ratio.py = "float" /\ ratio.num # 0

\* round(float(ratio_concurrent), 3) if ratio_concurrent else None (unit 0.001)
RatioField(ratio) ==
  IF Truthy(ratio) THEN [py |-> "float", milli |-> RoundDiv(ratio.num * 1000, ratio.den)]
  ELSE [py |-> "NoneType", milli |-> 0]

Strategie(ratio) ==
  IF Truthy(ratio) /\ 10 * ratio.num < 9 * ratio.den THEN "Agressive (prix bas)"
  ELSE IF Truthy(ratio) /\ 10 * ratio.num > 11 * ratio.den THEN "Premium (prix eleve)"
  ELSE "Equilibree"

Competitivite(ratio) ==
  IF /\ Truthy(ratio)
     /\ 95 * ratio.den <= 100 * ratio.num
     /\ 100 * ratio.num <= 105 * ratio.den
  THEN "Competitif" ELSE "A ajuster"

\* marge_calculee >= marge_voulue * 0.8, on the unrounded margin
Rentabilite(predicted_price, cout, marge) ==
  IF (IF cout.v > 0
      THEN 100 * (predicted_price - cout.v) >= 8 * marge.v * cout.v
      ELSE 0 >= marge.v)
  THEN "Bonne" ELSE "Faible"

InternalError(exc) ==
  Resp(500, [error |-> "Erreur interne lors de la prediction", details |-> exc])

PredictNotLoaded ==
  Resp(500, [error |-> MsgNotLoaded,
             message |-> "Veuillez entrainer le modele avec le script d'entrainement"])

\* The try block of predict and its outer except
predict_try(data) ==
  IF data.kind = "null" \/ (data.kind = "object" /\ IsEmptyObject(data))
  THEN Resp(400, [error |-> "Aucune donnee JSON fournie",
                  format_attendu |-> [domaine |-> "string ou int",
                                      prix_concurrent |-> "float",
                                      cout_production |-> "float",
                                      marge_voulue |-> "float"]])
  ELSE IF data.kind # "object" THEN InternalError("AttributeError")
  ELSE IF MissingFields(data) # <<>>
  THEN Resp(400, [error |-> "Caracteristiques manquantes",
                  manquantes |-> MissingFields(data),
                  domaines_disponibles |-> label_encoder.classes_,
                  exemple_complet |-> ExempleComplet])
  ELSE
    LET dom == PredictResolveDomain(data.domaine)
        num == CoerceNumerics(data)
        validation_errors ==
          validate_numeric_ranges(num.prix_concurrent, num.cout_production, num.marge_voulue)
        pred == ModelPredict(model, dom.domaine_encode.n, num.prix_concurrent,
                             num.cout_production, num.marge_voulue)
        ratio == RatioConcurrent(pred.val, num.prix_concurrent)
    IN IF dom.out = "return" THEN dom.resp
       ELSE IF dom.out = "raise" THEN InternalError(dom.exc)
       ELSE IF num.exc # "none"
       THEN Resp(400, [error |-> "Erreur de conversion numerique",
                       details |-> num.offending])
       ELSE IF validation_errors # <<>>
       THEN Resp(400, [error |-> "Erreurs de validation",
                       details |-> validation_errors,
                       valeurs_recues |-> [prix_concurrent |-> num.prix_concurrent,
                                           cout_production |-> num.cout_production,
                                           marge_voulue |-> num.marge_voulue]])
       ELSE IF pred.exc # "none" THEN InternalError(pred.exc)
       ELSE
         Resp(200,
           [prix_predit |-> RoundDiv(pred.val * 100, 10),
            caracteristiques_utilisees |->
              [domaine |-> dom.domaine_nom,
               domaine_encode |-> PyInt(dom.domaine_encode.n),
               prix_concurrent |-> num.prix_concurrent,
               cout_production |-> num.cout_production,
               marge_voulue |-> num.marge_voulue],
            analyse_economique |->
              [marge_realisee |-> MargeRealisee(pred.val, num.cout_production),
               benefice_unitaire |-> RoundDiv((pred.val - num.cout_production.v) * 100, 10),
               ratio_prix_concurrent |-> RatioField(ratio),
               strategie_prix |-> Strategie(ratio)],
            recommandations |->
              [competitivite |-> Competitivite(ratio),
               rentabilite |-> Rentabilite(pred.val, num.cout_production, num.marge_voulue)],
            statut |-> "success"])

\* Variant: the payload is looked at before the model_loaded flag.
predict_payload_first(data) ==
  IF ~model_loaded /\ data.kind # "null" THEN PredictNotLoaded ELSE predict_try(data)

predict(data) == IF ~model_loaded THEN PredictNotLoaded ELSE predict_try(data)

\* Request bodies of /predict
DomaineValues ==
  {JAbsent, JNull, JNaN, JList}
  \cup {JNum(n) : n \in {-10, -5, 0, 10, 15, 20, 990}}
  \cup {JStr(str) : str \in Strings(MaxStrLen)}
PrixValues ==
  {JAbsent, JNum(-100), JNum(-10), JNum(0), JNum(50), JNum(100), JStr(<<"a">>)}
CoutValues == {JAbsent, JNum(-10), JNum(0), JNum(90), JNum(100)}
MargeValues == {JAbsent, JNum(-10), JNum(5), JNaN, JList}

PredictBodies ==
  {[kind |-> k, domaine |-> JAbsent, prix_concurrent |-> JAbsent,
    cout_production |-> JAbsent, marge_voulue |-> JAbsent] : k \in {"null", "array"}}
  \cup [kind : {"object"}, domaine : DomaineValues, prix_concurrent : PrixValues,
        cout_production : CoutValues, marge_voulue : MargeValues]

Predict ==
  /\ pc = "idle"
  /\ \E data \in PredictBodies :
       /\ request' = [endpoint |-> "/predict", data |-> data]
       /\ response' = predict(data)
  /\ pc' = "responded"
  /\ UNCHANGED <<disk, globals>>

GetDomains ==
  /\ pc = "idle"
  /\ request' = [endpoint |-> "/domains"]
  /\ response' = get_domains
  /\ pc' = "responded"
  /\ UNCHANGED <<disk, globals>>

ModelInfo ==
  /\ pc = "idle"
  /\ request' = [endpoint |-> "/model_info"]
  /\ response' = model_info_endpoint
  /\ pc' = "responded"
  /\ UNCHANGED <<disk, globals>>

----------------------------------------------------------------------------
\* POST /predict_batch

ErrorEntry(idx, error, item) ==
  [index |-> idx, statut |-> "error", error |-> error, caracteristiques |-> item]

\* The domain block of predict_batch (its inner try and except); a "return"
\* outcome carries the entry the block appends before `continue`.
BatchResolveDomain(idx, item) ==
  LET domaine == item.domaine
  IN
  IF domaine.t = "str"
  THEN
    LET exact == InClasses(label_encoder, domaine.s)
        domaine_matches == MatchesForward(label_encoder, domaine.s)
    IN IF ~exact /\ domaine_matches = <<>>
       THEN Return(ErrorEntry(idx, "Domaine non reconnu", item))
       ELSE
         LET name == IF exact THEN domaine.s ELSE domaine_matches[1]
             enc == Transform(label_encoder, name)
         IN IF enc.exc = "ValueError"
            THEN Return(ErrorEntry(idx, "Erreur d'encodage du domaine", item))
            ELSE Ok(name, enc.val)
  ELSE
    LET c == IntOf(domaine)
    IN IF c.exc = "ValueError"
       THEN Return(ErrorEntry(idx, "Erreur d'encodage du domaine", item))
       ELSE IF c.exc # "none" THEN Raise(c.exc)
       ELSE IF c.val < 0 \/ c.val >= Len(label_encoder.classes_)
         THEN Return(ErrorEntry(idx, "Code domaine invalide", item))
       ELSE
         LET nom == ClassAt(label_encoder, c.val)
         IN IF nom.exc = "IndexError"
            THEN Return(ErrorEntry(idx, "Erreur d'encodage du domaine", item))
            ELSE Ok(nom.val, PyInt(c.val))

\* The body of the inner try of the loop: the entry it appends, or the
\* exception that escapes it.
BatchTryBody(idx, item) ==
  IF item.kind # "object" THEN [exc |-> "AttributeError", entry |-> <<>>]
  ELSE IF MissingFields(item) # <<>>
  THEN [exc |-> "none",
        entry |-> [index |-> idx, statut |-> "error",
                   error |-> "Caracteristiques manquantes",
                   manquantes |-> MissingFields(item), caracteristiques |-> item]]
  ELSE
    LET dom == BatchResolveDomain(idx, item)
        num == CoerceNumerics(item)
        validation_errors ==
          validate_numeric_ranges(num.prix_concurrent, num.cout_production, num.marge_voulue)
        pred == ModelPredict(model, dom.domaine_encode.n, num.prix_concurrent,
                             num.cout_production, num.marge_voulue)
        ratio == RatioConcurrent(pred.val, num.prix_concurrent)
    IN IF dom.out = "return" THEN [exc |-> "none", entry |-> dom.resp]
       ELSE IF dom.out = "raise" THEN [exc |-> dom.exc, entry |-> <<>>]
       ELSE IF num.exc # "none"
       THEN [exc |-> "none",
             entry |-> ErrorEntry(idx, "Erreur de conversion numerique", item)]
       ELSE IF validation_errors # <<>>
       THEN [exc |-> "none",
             entry |-> [index |-> idx, statut |-> "error",
                        error |-> "Erreurs de validation",
                        details |-> validation_errors, caracteristiques |-> item]]
       ELSE IF pred.exc # "none" THEN [exc |-> pred.exc, entry |-> <<>>]
       ELSE [exc |-> "none",
             entry |-> [index |-> idx, statut |-> "success",
                        prix_predit |-> RoundDiv(pred.val * 100, 10),
                        domaine |-> dom.domaine_nom,
                        marge_realisee |-> MargeRealisee(pred.val, num.cout_production),
                        ratio_concurrent |-> RatioField(ratio),
                        caracteristiques |-> item]]

\* Variant: no catch-all around the body of the loop.
BatchIterationNoCatch(idx, item) == BatchTryBody(idx, item)

\* One iteration of the loop: the inner `except Exception` turns whatever
\* escapes the body into the record's own error entry.
BatchIteration(idx, item) ==
  LET r == BatchTryBody(idx, item)
  IN IF r.exc = "none" THEN [exc |-> "none", entry |-> r.entry]
     ELSE [exc |-> "none", entry |-> ErrorEntry(idx, r.exc, item)]

SuccessfulPredictions(res) == SelectSeq(res, LAMBDA r : r.statut = "success")

RECURSIVE SumPrix(_)
SumPrix(res) == IF res = <<>> THEN 0 ELSE Head(res).prix_predit + SumPrix(Tail(res))

\* Variant: the first successful price is taken as the minimum.
PriceRangeFirstIsMin(res) ==
  LET ok == SuccessfulPredictions(res)
      prices == {ok[k].prix_predit : k \in 1..Len(ok)}
  IN IF ok # <<>>
     THEN [py |-> "dict",
           min |-> ok[1].prix_predit,
           max |-> CHOOSE x \in prices : \A y \in prices : x >= y,
           moyenne |-> RoundDiv(SumPrix(ok), Len(ok))]
     ELSE [py |-> "NoneType", min |-> 0, max |-> 0, moyenne |-> 0]

\* The price_range of the statistics (None for no successful prediction)
PriceRange(res) ==
  LET ok == SuccessfulPredictions(res)
      prices == {ok[k].prix_predit : k \in 1..Len(ok)}
  IN IF ok # <<>>
     THEN [py |-> "dict",
           min |-> CHOOSE x \in prices : \A y \in prices : x <= y,
           max |-> CHOOSE x \in prices : \A y \in prices : x >= y,
           moyenne |-> RoundDiv(SumPrix(ok), Len(ok))]
     ELSE [py |-> "NoneType", min |-> 0, max |-> 0, moyenne |-> 0]

\* Variant: the success rate is truncated instead of rounded.
StatistiquesTruncated(res) ==
  [total |-> Len(res),
   succes |-> Len(SuccessfulPredictions(res)),
   erreurs |-> Len(SelectSeq(res, LAMBDA r : r.statut = "error")),
   taux_succes |-> IF res # <<>>
                   THEN (Len(SuccessfulPredictions(res)) * 1000) \div Len(res)
                   ELSE 0,
   prix_range |-> PriceRange(res)]

\* The statistiques object; taux_succes in tenths of a percent
Statistiques(res) ==
  [total |-> Len(res),
   succes |-> Len(SuccessfulPredictions(res)),
   erreurs |-> Len(SelectSeq(res, LAMBDA r : r.statut = "error")),
   taux_succes |-> IF res # <<>>
                   THEN RoundDiv(Len(SuccessfulPredictions(res)) * 1000, Len(res))
                   ELSE 0,
   prix_range |-> PriceRange(res)]

BatchInternalError(exc) ==
  Resp(500, [error |-> "Erreur lors du traitement en lot", details |-> exc])

\* Records of a 'predictions' list
Item(d, p, c, m) ==
  [kind |-> "object", domaine |-> d, prix_concurrent |-> p,
   cout_production |-> c, marge_voulue |-> m]

BatchItems ==
  { [kind |-> "number", domaine |-> JAbsent, prix_concurrent |-> JAbsent,
     cout_production |-> JAbsent, marge_voulue |-> JAbsent],
    Item(JAbsent, JAbsent, JAbsent, JAbsent),
    Item(JStr(<<"b">>), JNum(100), JNum(50), JNum(5)),
    Item(JStr(<<"b", "A">>), JNum(100), JNum(50), JNum(5)),
    Item(JStr(<<"a", "a">>), JNum(100), JNum(50), JNum(5)),
    Item(JNum(0), JNum(100), JNum(50), JNum(5)),
    Item(JNum(990), JNum(100), JNum(50), JNum(5)),
    Item(JStr(<<"b">>), JStr(<<"a">>), JNum(50), JNum(5)),
    Item(JStr(<<"b">>), JNum(-10), JNum(50), JNum(-10)),
    Item(JNum(15), JNum(100), JNum(50), JNaN) }

\* Request bodies of /predict_batch: null, an object without the key
\* (empty or not), the key holding null, the key holding a list.
BatchBodies ==
  {[kind |-> k, keys |-> {}, ptype |-> "absent", predictions |-> <<>>] :
     k \in {"null", "object"}}
  \cup {[kind |-> "object", keys |-> {"autre"}, ptype |-> "absent", predictions |-> <<>>]}
  \cup {[kind |-> "object", keys |-> {"predictions"}, ptype |-> "null", predictions |-> <<>>]}
  \cup {[kind |-> "object", keys |-> {"predictions"}, ptype |-> "list", predictions |-> l] :
          l \in UNION {[1..n -> BatchItems] : n \in 0..MaxBatch}}

RECURSIVE BatchLoop(_, _, _)
\* `for i, item in enumerate(predictions_data)` from index idx on, with the
\* results list so far; an exception that escapes an iteration ends the loop
\* and goes to the handler's outer except.
BatchLoop(items, idx, res) ==
  IF idx >= Len(items) THEN [exc |-> "none", results |-> res]
  ELSE LET r == BatchIteration(idx, items[idx + 1])
       IN IF r.exc # "none" THEN [exc |-> r.exc, results |-> res]
          ELSE BatchLoop(items, idx + 1, Append(res, r.entry))

predict_batch(data) ==
  IF ~model_loaded
  THEN Resp(500, [error |-> MsgNotLoaded, message |-> "Veuillez entrainer le modele"])
  ELSE IF data.kind = "null" \/ data.keys = {} \/ "predictions" \notin data.keys
  THEN Resp(400, [error |-> "Format incorrect",
                  exemple |-> [predictions |-> <<ExempleComplet>>]])
  ELSE IF data.ptype # "list" THEN BatchInternalError("TypeError")
  ELSE
    LET loop == BatchLoop(data.predictions, 0, <<>>)
    IN IF loop.exc # "none" THEN BatchInternalError(loop.exc)
       ELSE Resp(200, [predictions |-> loop.results,
                       statistiques |-> Statistiques(loop.results)])

\* Variant: a batch that ends in the outer except marks the model as not
\* loaded.
PredictBatchMarksFailure ==
  /\ pc = "idle"
  /\ \E data \in BatchBodies :
       /\ request' = [endpoint |-> "/predict_batch", data |-> data]
       /\ response' = predict_batch(data)
  /\ pc' = "responded"
  /\ model_loaded' = (model_loaded /\ response'.status # 500)
  /\ UNCHANGED <<disk, model, label_encoder, feature_names, domain_mapping, model_info>>

PredictBatch ==
  /\ pc = "idle"
  /\ \E data \in BatchBodies :
       /\ request' = [endpoint |-> "/predict_batch", data |-> data]
       /\ response' = predict_batch(data)
  /\ pc' = "responded"
  /\ UNCHANGED <<disk, globals>>

\* The response leaves the handler; the server waits for the next request.
SendResponse ==
  /\ pc = "responded"
  /\ pc' = "idle"
  /\ request' = NoRequest
  /\ response' = NoResponse
  /\ UNCHANGED <<disk, globals>>

Next ==
  \/ Train
  \/ RemoveFile
  \/ StartService
  \/ GetDomains
  \/ ModelInfo
  \/ Predict
  \/ PredictBatch
  \/ SendResponse

Spec == Init /\ [][Next]_vars

----------------------------------------------------------------------------
\* Properties

Responded(endpoint) == pc = "responded" /\ request.endpoint = endpoint

Classes == label_encoder.classes_

\* C1: when the startup load failed, every endpoint answers HTTP 500 with the
\* fixed 'model not loaded' error whatever the request is, and the body holds
\* nothing but that error and a fixed message.
C1_NotLoadedAnswers500 ==
  (pc = "responded" /\ ~model_loaded) =>
     /\ response.status = 500
     /\ response.body.error = MsgNotLoaded
     /\ DOMAIN response.body \subseteq {"error", "message"}
     /\ "message" \in DOMAIN response.body =>
          response.body.message \in
            {PredictNotLoaded.body.message, "Veuillez entrainer le modele"}

\* A batch of two records answered while the load had stopped half-way (the
\* model is assigned, the encoder is not).
C1_Witness ==
  /\ Responded("/predict_batch")
  /\ ~model_loaded
  /\ model # None
  /\ label_encoder = None
  /\ request.data.ptype = "list"
  /\ Len(request.data.predictions) = 2

\* The records of a batch that the text of C2 calls failing, from the request
\* alone: not an object, a missing field, a string domain no class name
\* matches in either direction, a code out of range, a numeric field that is
\* not a number, a negative value or a cost above 0.9 of the price.
RecordFails(item) ==
  \/ item.kind # "object"
  \/ \E k \in 1..Len(RequiredFields) : IsNone(item[RequiredFields[k]])
  \/ /\ item.domaine.t = "str"
     /\ \A k \in 1..Len(Classes) :
          /\ ~StrIn(Lower(item.domaine.s), Lower(Classes[k]))
          /\ ~StrIn(Lower(Classes[k]), Lower(item.domaine.s))
  \/ /\ item.domaine.t = "num"
     /\ \/ item.domaine.v <= -10
        \/ item.domaine.v >= 10 * Len(Classes)
  \/ item.domaine.t \in {"nan", "list"}
  \/ \E f \in {"prix_concurrent", "cout_production", "marge_voulue"} :
        item[f].t \in {"str", "list"}
  \/ \E f \in {"prix_concurrent", "cout_production", "marge_voulue"} :
        item[f].t = "num" /\ item[f].v < 0
  \/ /\ item.prix_concurrent.t = "num"
     /\ item.cout_production.t = "num"
     /\ 10 * item.cout_production.v > 9 * item.prix_concurrent.v

\* seq without its element at position f
Without(seq, f) == SubSeq(seq, 1, f - 1) \o SubSeq(seq, f + 1, Len(seq))

SameButIndex(a, b) == [a EXCEPT !.index = 0] = [b EXCEPT !.index = 0]

\* C2: a batch of n records is answered 200 with n entries, entry i carrying
\* index i; a failing record yields an error entry at its own index, and
\* every other record gets the entry it gets in the batch without that record.
C2_BatchIsolatesRecords ==
  (Responded("/predict_batch") /\ model_loaded /\ request.data.ptype = "list") =>
     LET items == request.data.predictions
         out == response.body.predictions
     IN /\ response.status = 200
        /\ Len(out) = Len(items)
        /\ \A k \in 1..Len(items) :
             /\ out[k].index = k - 1
             /\ out[k].statut \in {"success", "error"}
             /\ RecordFails(items[k]) => out[k].statut = "error"
        /\ \A f \in 1..Len(items) :
             out[f].statut = "error" =>
               LET alone == predict_batch([request.data EXCEPT
                                             !.predictions = Without(items, f)])
               IN /\ alone.status = 200
                  /\ \A k \in 1..Len(items) :
                       k # f =>
                         SameButIndex(out[k],
                           alone.body.predictions[IF k < f THEN k ELSE k - 1])

\* A batch whose first record fails and whose second record succeeds.
C2_Witness ==
  /\ Responded("/predict_batch")
  /\ response.status = 200
  /\ Len(request.data.predictions) >= 2
  /\ RecordFails(request.data.predictions[1])
  /\ response.body.predictions[1].statut = "error"
  /\ response.body.predictions[2].statut = "success"

\* A /predict request that is an object holding all four fields, answered
\* by a service whose model is loaded.
PredictComplete ==
  /\ Responded("/predict")
  /\ model_loaded
  /\ request.data.kind = "object"
  /\ \A k \in 1..Len(RequiredFields) : ~IsNone(request.data[RequiredFields[k]])

\* Class name number k matches the string by case-insensitive inclusion, in
\* one direction or the other.
FuzzyMatch(k, str) ==
  \/ StrIn(Lower(str), Lower(Classes[k]))
  \/ StrIn(Lower(Classes[k]), Lower(str))

\* C3: a record is a success of /predict_batch exactly when /predict accepts
\* it, and both resolve it to the same domain name and code.
C3_BatchResolvesLikePredict ==
  PredictComplete =>
     LET entry == BatchIteration(0, request.data).entry
         used == response.body.caracteristiques_utilisees
     IN /\ (response.status = 200) <=> (entry.statut = "success")
        /\ response.status = 200 =>
             /\ entry.domaine = used.domaine
             /\ BatchResolveDomain(0, request.data).domaine_encode.n = used.domaine_encode.n

\* C4: with the artifacts as the trainer wrote them, a non-string domain whose
\* integer code is negative or not below the number of classes is answered 400
\* with the 'invalid code' error.
C4_OutOfRangeCodeIs400 ==
  ( /\ PredictComplete
    /\ "domain_mapping" \in DOMAIN disk
    /\ request.data.domaine.t = "num"
    /\ \/ request.data.domaine.v <= -10
       \/ request.data.domaine.v >= 10 * Len(Classes) ) =>
     /\ response.status = 400
     /\ response.body.error = "Code domaine invalide"

\* C5: a string domain that is no exact class name resolves to the first
\* class, in class order, that matches it in either direction; when no class
\* matches, the answer is 400 'domain not recognized' with all the valid names
\* and no prediction.
C5_FuzzyFirstMatchOrRejected ==
  ( /\ PredictComplete
    /\ request.data.domaine.t = "str"
    /\ \A k \in 1..Len(Classes) : Classes[k] # request.data.domaine.s ) =>
     LET str == request.data.domaine.s
         hits == {k \in 1..Len(Classes) : FuzzyMatch(k, str)}
         first == CHOOSE k \in hits : \A j \in hits : k <= j
     IN IF hits = {}
        THEN /\ response.status = 400
             /\ response.body.error = "Domaine non reconnu"
             /\ response.body.domaines_disponibles = Classes
             /\ "prix_predit" \notin DOMAIN response.body
        ELSE /\ response.body # [error |-> "Domaine non reconnu", domaine |-> str,
                                 domaines_disponibles |-> Classes]
             /\ "error" \in DOMAIN response.body =>
                   response.body.error # "Domaine non reconnu"
             /\ response.status = 200 =>
                  /\ response.body.caracteristiques_utilisees.domaine = Classes[first]
                  /\ response.body.caracteristiques_utilisees.domaine_encode = PyInt(first - 1)

\* A prediction for a string that two class names match, one of them only
\* because the string contains it.
C5_Witness ==
  /\ PredictComplete
  /\ request.data.domaine.t = "str"
  /\ response.status = 200
  /\ \A k \in 1..Len(Classes) : Classes[k] # request.data.domaine.s
  /\ Cardinality({k \in 1..Len(Classes) : FuzzyMatch(k, request.data.domaine.s)}) >= 2
  /\ \E k \in 1..Len(Classes) :
       /\ StrIn(Lower(Classes[k]), Lower(request.data.domaine.s))
       /\ ~StrIn(Lower(request.data.domaine.s), Lower(Classes[k]))

\* C6: for each of the N class names, resolving by the name and resolving by
\* the name's code give the same name and code, the codes are 0..N-1, and
\* decoding the code of a name gives the name back; a prediction reports such
\* a pair.
C6_NameCodeRoundTrip ==
  model_loaded =>
     /\ \A k \in 1..Len(Classes) :
          LET byName == PredictResolveDomain(JStr(Classes[k]))
              byCode == PredictResolveDomain(JNum(10 * byName.domaine_encode.n))
          IN /\ byName.out = "ok"
             /\ byCode.out = "ok"
             /\ byName.domaine_nom = Classes[k]
             /\ byCode.domaine_nom = Classes[k]
             /\ byCode.domaine_encode.n = byName.domaine_encode.n
             /\ byName.domaine_encode.n = k - 1
             /\ ClassAt(label_encoder, Transform(label_encoder, Classes[k]).val.n).val
                  = Classes[k]
     /\ (Responded("/predict") /\ response.status = 200) =>
          LET used == response.body.caracteristiques_utilisees
          IN /\ PredictResolveDomain(JStr(used.domaine)).domaine_encode.n
                  = used.domaine_encode.n
             /\ PredictResolveDomain(JNum(10 * used.domaine_encode.n)).domaine_nom
                  = used.domaine

\* A prediction asked by code for the last of three classes.
C6_Witness ==
  /\ Responded("/predict")
  /\ response.status = 200
  /\ Len(Classes) = 3
  /\ request.data.domaine = JNum(20)
  /\ response.body.caracteristiques_utilisees.domaine = Classes[3]

\* Number of occurrences of x in seq
Count(seq, x) == Cardinality({k \in 1..Len(seq) : seq[k] = x})

\* A /predict request that reaches the range validation: its domain resolves
\* and its three numeric fields are numbers.
ReachesValidation ==
  /\ PredictComplete
  /\ PredictResolveDomain(request.data.domaine).out = "ok"
  /\ \A f \in {"prix_concurrent", "cout_production", "marge_voulue"} :
        request.data[f].t \in {"num", "nan"}

Negative(j) == j.t = "num" /\ j.v < 0

\* C7: the validation reports exactly one error per negative field, for any
\* subset of negative fields, and the cost-too-high error exactly when the
\* cost is above 0.9 of the price, whatever the signs; a non-empty list is
\* answered 400 with all the errors together, an empty one is not an error.
C7_OneErrorPerViolation ==
  ReachesValidation =>
     LET d == request.data
         tooHigh == /\ d.cout_production.t = "num"
                    /\ d.prix_concurrent.t = "num"
                    /\ 10 * d.cout_production.v > 9 * d.prix_concurrent.v
         expected == (IF Negative(d.prix_concurrent) THEN 1 ELSE 0)
                     + (IF Negative(d.cout_production) THEN 1 ELSE 0)
                     + (IF Negative(d.marge_voulue) THEN 1 ELSE 0)
                     + (IF tooHigh THEN 1 ELSE 0)
     IN IF expected = 0
        THEN /\ response.status # 400
             /\ "details" \in DOMAIN response.body => response.status = 500
        ELSE /\ response.status = 400
             /\ response.body.error = "Erreurs de validation"
             /\ Len(response.body.details) = expected
             /\ Count(response.body.details, ErrPrix)
                  = IF Negative(d.prix_concurrent) THEN 1 ELSE 0
             /\ Count(response.body.details, ErrCout)
                  = IF Negative(d.cout_production) THEN 1 ELSE 0
             /\ Count(response.body.details, ErrMarge)
                  = IF Negative(d.marge_voulue) THEN 1 ELSE 0
             /\ Count(response.body.details, ErrTropEleve) = IF tooHigh THEN 1 ELSE 0

\* Three negative fields and a cost above 0.9 of the price: four errors.
C7_Witness ==
  /\ ReachesValidation
  /\ response.status = 400
  /\ response.body.error = "Erreurs de validation"
  /\ Len(response.body.details) = 4

\* The required fields a payload lacks (absent or null)
Lacking(data) == {f \in {"domaine", "prix_concurrent", "cout_production", "marge_voulue"} :
                    data[f].t \in {"absent", "null"}}

\* A /predict request whose payload is null or an object lacking a field
LacksFields ==
  /\ Responded("/predict")
  /\ model_loaded
  /\ \/ request.data.kind = "null"
     \/ request.data.kind = "object" /\ Lacking(request.data) # {}

\* C8 as stated: an absent payload or a payload lacking any subset of the
\* four fields, the empty object included, is answered 400 with exactly the
\* missing fields and an example payload.
C8_MissingFieldsAlwaysListed ==
  LacksFields =>
     /\ response.status = 400
     /\ "manquantes" \in DOMAIN response.body
     /\ {response.body.manquantes[k] : k \in 1..Len(response.body.manquantes)}
          = Lacking(request.data)
     /\ "exemple_complet" \in DOMAIN response.body

\* C8 amended: such a request is answered 400; a null payload or an empty
\* object gets the fixed 'no JSON data' error with the expected format and no
\* list of missing fields; every other object gets exactly its missing fields,
\* each once, and the example payload.
C8_MissingFieldsListedUnlessEmpty ==
  LacksFields =>
     /\ response.status = 400
     /\ IF \/ request.data.kind = "null"
           \/ Cardinality({f \in Lacking(request.data) :
                              request.data[f].t = "absent"}) = 4
        THEN /\ response.body.error = "Aucune donnee JSON fournie"
             /\ DOMAIN response.body = {"error", "format_attendu"}
        ELSE /\ response.body.error = "Caracteristiques manquantes"
             /\ {response.body.manquantes[k] : k \in 1..Len(response.body.manquantes)}
                  = Lacking(request.data)
             /\ Len(response.body.manquantes) = Cardinality(Lacking(request.data))
             /\ response.body.exemple_complet = ExempleComplet

\* An object that lacks all four fields without being empty (domaine is null).
C8_Witness ==
  /\ LacksFields
  /\ request.data.kind = "object"
  /\ request.data.domaine.t = "null"
  /\ Len(response.body.manquantes) = 4

\* C9: a non-string domain that int() cannot convert is answered 400 with
\* the domain-encoding error.
C9_UncoercibleDomainIs400 ==
  ( /\ PredictComplete
    /\ request.data.domaine.t \in {"nan", "list"} ) =>
     /\ response.status = 400
     /\ response.body.error = "Erreur d'encodage du domaine"

\* C10: total is the number of records and succes + erreurs; taux_succes is
\* 100 * succes / total to the nearest tenth, and 0, with a 200 answer, for
\* an empty batch.
C10_BatchStatistics ==
  (Responded("/predict_batch") /\ model_loaded /\ request.data.ptype = "list") =>
     LET n == Len(request.data.predictions)
         st == response.body.statistiques
         ok == Cardinality({k \in 1..n : response.body.predictions[k].statut = "success"})
     IN /\ response.status = 200
        /\ st.total = n
        /\ st.succes = ok
        /\ st.total = st.succes + st.erreurs
        /\ n = 0 => st.taux_succes = 0
        /\ n > 0 =>
             /\ 2 * (st.taux_succes * n - 1000 * ok) <= n
             /\ 2 * (1000 * ok - st.taux_succes * n) <= n

\* Two successes out of three records: 66.7 percent.
C10_Witness ==
  /\ Responded("/predict_batch")
  /\ response.status = 200
  /\ response.body.statistiques.total = 3
  /\ response.body.statistiques.succes = 2
  /\ response.body.statistiques.taux_succes = 667

\* C11: prix_range is null exactly when no record of the batch succeeded;
\* otherwise min and max are the smallest and the largest prix_predit of the
\* success entries, and min <= moyenne <= max.
C11_PriceRangeOverSuccesses ==
  (Responded("/predict_batch") /\ model_loaded /\ request.data.ptype = "list") =>
     LET out == response.body.predictions
         good == {k \in 1..Len(out) : out[k].statut = "success"}
         pr == response.body.statistiques.prix_range
     IN /\ (pr.py = "NoneType") <=> (good = {})
        /\ good # {} =>
             /\ \E k \in good : out[k].prix_predit = pr.min
             /\ \E k \in good : out[k].prix_predit = pr.max
             /\ \A k \in good : pr.min <= out[k].prix_predit /\ out[k].prix_predit <= pr.max
             /\ pr.min <= pr.moyenne
             /\ pr.moyenne <= pr.max

\* Three records: a success, an error, then a success with a lower price; the
\* mean lies strictly between the two prices.
C11_Witness ==
  /\ Responded("/predict_batch")
  /\ response.status = 200
  /\ Len(response.body.predictions) = 3
  /\ response.body.predictions[1].statut = "success"
  /\ response.body.predictions[2].statut = "error"
  /\ response.body.predictions[3].statut = "success"
  /\ response.body.predictions[3].prix_predit < response.body.predictions[1].prix_predit
  /\ response.body.statistiques.prix_range.min < response.body.statistiques.prix_range.moyenne
  /\ response.body.statistiques.prix_range.moyenne < response.body.statistiques.prix_range.max

\* A batch answered 200 in which no record succeeded: prix_range is null.
C11_WitnessNone ==
  /\ Responded("/predict_batch")
  /\ response.status = 200
  /\ Len(response.body.predictions) = 2
  /\ response.body.statistiques.succes = 0
  /\ response.body.statistiques.prix_range.py = "NoneType"

\* A prediction of /predict; prix_predit is in hundredths and the request's
\* numbers are in tenths, so the predicted price over the competitor price is
\* prix_predit / (10 * prix_concurrent).
PredictSucceeded == PredictComplete /\ response.status = 200

\* C12: in a prediction for a positive competitor price, the strategy is
\* 'aggressive' for a ratio below 0.9, 'premium' for a ratio above 1.1 and
\* 'balanced' otherwise, whatever the predicted price is.
C12_StrategyByRatioAlone ==
  (PredictSucceeded /\ request.data.prix_concurrent.v > 0) =>
     LET num == response.body.prix_predit
         den == 10 * request.data.prix_concurrent.v
         strategie == response.body.analyse_economique.strategie_prix
     IN strategie = IF 10 * num < 9 * den THEN "Agressive (prix bas)"
                    ELSE IF 10 * num > 11 * den THEN "Premium (prix eleve)"
                    ELSE "Equilibree"

\* The part of C12 the handler keeps: the same for a predicted price that is
\* not 0 (negative prices included).
C12_StrategyByNonZeroRatio ==
  ( /\ PredictSucceeded
    /\ request.data.prix_concurrent.v > 0
    /\ response.body.prix_predit # 0 ) =>
     LET num == response.body.prix_predit
         den == 10 * request.data.prix_concurrent.v
         strategie == response.body.analyse_economique.strategie_prix
     IN strategie = IF 10 * num < 9 * den THEN "Agressive (prix bas)"
                    ELSE IF 10 * num > 11 * den THEN "Premium (prix eleve)"
                    ELSE "Equilibree"

\* A prediction below 0 for a positive competitor price
C12_NegativePriceReached ==
  /\ PredictSucceeded
  /\ request.data.prix_concurrent.v > 0
  /\ response.body.prix_predit < 0

\* C13: in a prediction, ratio_prix_concurrent is null for a competitor price
\* of 0 and otherwise the number predicted price / competitor price to three
\* decimals; marge_realisee is 0 for a production cost of 0 and otherwise
\* (predicted price - cost) / cost to four decimals.
C13_RatioAndMargin ==
  PredictSucceeded =>
     LET prix == request.data.prix_concurrent.v
         cout == request.data.cout_production.v
         pred == response.body.prix_predit
         ratio == response.body.analyse_economique.ratio_prix_concurrent
         marge == response.body.analyse_economique.marge_realisee
     IN /\ prix = 0 => ratio.py = "NoneType"
        /\ prix # 0 =>
             /\ ratio.py = "float"
             /\ 2 * (ratio.milli * 10 * prix - 1000 * pred) <= 10 * prix
             /\ 2 * (1000 * pred - ratio.milli * 10 * prix) <= 10 * prix
        /\ cout = 0 => marge = 0
        /\ cout # 0 =>
             /\ 2 * (marge * 10 * cout - 10000 * (pred - 10 * cout)) <= 10 * cout
             /\ 2 * (10000 * (pred - 10 * cout) - marge * 10 * cout) <= 10 * cout

\* The part of C13 the handler keeps: the same for a predicted price that is
\* not 0.
C13_RatioAndMarginNonZeroPrice ==
  (PredictSucceeded /\ response.body.prix_predit # 0) => C13_RatioAndMargin

NumericFields == {"prix_concurrent", "cout_production", "marge_voulue"}

\* The first check of /predict that a complete-or-not object fails, told from
\* the request and the class names alone: "missing" (a field absent or null),
\* "domain" (a string no class matches, a code out of range, a value int()
\* rejects), "coercion" (a numeric field that is a string or a list), "range"
\* (a negative value or a cost above 0.9 of the price), else "model".
FirstFailingCheck(data) ==
  IF Lacking(data) # {} THEN "missing"
  ELSE IF \/ /\ data.domaine.t = "str"
             /\ \A k \in 1..Len(Classes) : ~FuzzyMatch(k, data.domaine.s)
          \/ /\ data.domaine.t = "num"
             /\ \/ data.domaine.v <= -10
                \/ data.domaine.v >= 10 * Len(Classes)
          \/ data.domaine.t \in {"nan", "list"}
    THEN "domain"
  ELSE IF \E f \in NumericFields : data[f].t \in {"str", "list"} THEN "coercion"
  ELSE IF \/ \E f \in NumericFields : Negative(data[f])
          \/ /\ data.prix_concurrent.t = "num"
             /\ data.cout_production.t = "num"
             /\ 10 * data.cout_production.v > 9 * data.prix_concurrent.v
    THEN "range"
  ELSE "model"

\* A /predict request with a non-empty object as payload, model loaded
PredictObject ==
  /\ Responded("/predict")
  /\ model_loaded
  /\ request.data.kind = "object"
  /\ Lacking(request.data) # {"domaine", "prix_concurrent", "cout_production", "marge_voulue"}

DomainErrors ==
  {"Domaine non reconnu", "Code domaine invalide", "Erreur d'encodage du domaine"}

\* C14: the first failing check, in the order missing fields, domain, numeric
\* coercion, range validation, alone decides the response: the response is of
\* that check's kind and is the one the request gets when the fields of the
\* later checks are replaced by valid ones; a prediction, or an error of the
\* model, is only answered when no check fails.
C14_FirstFailingCheckDecides ==
  PredictObject =>
     LET data == request.data
         stage == FirstFailingCheck(data)
         body == response.body
     IN /\ stage = "missing" =>
             /\ response.status = 400
             /\ body.error = "Caracteristiques manquantes"
        /\ stage = "domain" =>
             /\ \/ response.status = 400 /\ body.error \in DomainErrors
                \/ response.status = 500 /\ body.details = "TypeError"
             /\ response = predict([data EXCEPT !.prix_concurrent = JNum(100),
                                                !.cout_production = JNum(0),
                                                !.marge_voulue = JNum(5)])
        /\ stage = "coercion" =>
             /\ response.status = 400
             /\ body.error = "Erreur de conversion numerique"
             /\ "valeurs_recues" \notin DOMAIN body
             /\ body.details \in {data[f] : f \in NumericFields}
        /\ stage = "range" =>
             /\ response.status = 400
             /\ body.error = "Erreurs de validation"
        /\ stage = "model" =>
             \/ response.status = 200 /\ "prix_predit" \in DOMAIN body
             \/ /\ response.status = 500
                /\ body.details = "ValueError"
                /\ \E f \in NumericFields : data[f].t = "nan"
        /\ ("prix_predit" \in DOMAIN body) => stage = "model"

\* A request whose price is not a number and whose cost is negative: the
\* conversion error is answered, not the validation error.
C14_Witness ==
  /\ PredictObject
  /\ FirstFailingCheck(request.data) = "coercion"
  /\ request.data.prix_concurrent.t = "str"
  /\ Negative(request.data.cout_production)
  /\ response.body.error = "Erreur de conversion numerique"

\* A request whose domain is not recognized and whose price is not a number:
\* the domain error is answered.
C14_WitnessDomainFirst ==
  /\ PredictObject
  /\ FirstFailingCheck(request.data) = "domain"
  /\ request.data.prix_concurrent.t = "str"
  /\ response.body.error = "Domaine non reconnu"

C15_GlobalsAreStartupValues ==
  pc # "offline" =>
     LET g == load_model_components(disk)
     IN globals = <<g.model, g.label_encoder, g.feature_names, g.domain_mapping,
                    g.model_info, g.ret>>

====
